---- MODULE Spec2Model ----
(***************************************************************************)
(* ilias-rs: the lazy Reference cell (src/src/reference.rs), the           *)
(* Assignment page extraction and the AssignmentSubmission operations      *)
(* (src/src/exercise/assignment.rs).                                       *)
(*                                                                         *)
(* The Querypath extension of Url (src/src/lib.rs) is modelled on its own:  *)
(* a Url is its path and its optional query, and a text is the sequence of *)
(* its characters.                                                         *)
(*                                                                         *)
(* Conventions.  Option<T> is a sequence of length at most one: None is    *)
(* <<>> and Some(x) is <<x>>.  Result<T> is a record [tag, val] with tag   *)
(* "Ok" or "Err"; a Rust panic (expect/unwrap on an absent value) is the   *)
(* third outcome, tag "Panic".  A panic unwinds out of the owner of the    *)
(* object, so it ends the run of the modelled program (pc = "panicked").   *)
(***************************************************************************)
EXTENDS Integers, Sequences, FiniteSets, TLC

VARIABLES doc, page, pc, asg, now, fetchLog, parseLog, postLog, ret, url

vars == <<doc, page, pc, asg, now, fetchLog, parseLog, postLog, ret, url>>

(* ------------------------------ bounds --------------------------------- *)

\* most rows of one property block or table of a page
MaxRows == 2
\* most child columns of one table row
MaxCols == 4
\* instants are 0..MaxTime
MaxTime == 3
\* most files handed to one delete_files / upload_files call
MaxFiles == 2
\* most transport fetches of one run
MaxFetch == 4
\* most transport posts of one run
MaxPosts == 1
\* most characters of the path of an address
MaxPath == 2
\* most characters of the query string of an address
MaxQuery == 3

(* ------------------------------ helpers -------------------------------- *)

None == <<>>
Some(x) == <<x>>
Option(S) == {None} \cup {Some(x) : x \in S}
SeqsUpTo(S, n) == UNION {[1..k -> S] : k \in 0..n}

Ok(v) == [tag |-> "Ok", val |-> v]
Err(m) == [tag |-> "Err", val |-> m]
Panic(m) == [tag |-> "Panic", val |-> m]

Times == 0..MaxTime

(* ------------------------- the pages (inputs) -------------------------- *)

\* addresses the portal puts into the "Submitted Files" link
SubmissionAddrs == {"exc.php?cmd=submissionScreen", "exc.php?cmd=listFiles"}
\* address in the upload button's data-action, and the upload form's action
UploadFormAddr == "exc.php?cmd=uploadForm"
UploadAddr == "exc.php?cmd=uploadFile"
DeleteAddr == "exc.php?cmd=deleteDelivered"

\* text of a date cell: well formed and denoting instant `at`, or malformed
DateTexts == {[ok |-> TRUE, at |-> t] : t \in Times} \cup {[ok |-> FALSE, at |-> 0]}

\* a cell holding (or not) an <a>, which has (or has not) an href
LinkCells(A) == Option(Option(A))

\* .form-group rows of the schedule block: the text of the row's
\* .il_InfoScreenProperty (None: the row has no such element) and the row's
\* first .il_InfoScreenPropertyValue (None: there is none)
ScheduleRows ==
    [key : {Some("Startzeit"), Some("Edit Until")}, value : Option(DateTexts)]
      \cup {[key |-> Some("Other"), value |-> None], [key |-> None, value |-> None]}

\* .form-group rows of the "Your Submission" block
SubmissionRows ==
    [key : {Some("Submitted Files")}, value : Option(LinkCells(SubmissionAddrs))]
      \cup {[key |-> Some("Other"), value |-> None], [key |-> None, value |-> None]}

\* .form-group rows of the "Files" block: the number of child elements and
\* what the second child holds (an <a>? with an href?)
AttachmentRows ==
    {[cols |-> c, link |-> None] : c \in 0..1}
      \cup [cols : {2}, link : LinkCells({"dl.php?file"})]

\* The assignment page.  Each block field is the first .ilInfoScreenSec whose
\* .ilHeader text is one of the accepted headings (None: there is none), which
\* is what find_map returns; headerless says that some .ilInfoScreenSec of the
\* page has no .ilHeader at all.
BaseDoc ==
    [hasName |-> TRUE, headerless |-> FALSE,
     instr |-> None,
     sched |-> Some(<<[key |-> Some("Startzeit"), value |-> Some([ok |-> TRUE, at |-> 1])],
                      [key |-> Some("Edit Until"), value |-> Some([ok |-> TRUE, at |-> 2])]>>),
     files |-> None,
     subm |-> None]

HeadDocs == {[BaseDoc EXCEPT !.hasName = n, !.headerless = h, !.instr = i] :
                n \in BOOLEAN, h \in BOOLEAN, i \in Option(BOOLEAN)}
SchedDocs == {[BaseDoc EXCEPT !.sched = s] : s \in Option(SeqsUpTo(ScheduleRows, MaxRows))}
FilesDocs == {[BaseDoc EXCEPT !.files = f, !.instr = i] :
                f \in Option(SeqsUpTo(AttachmentRows, MaxRows)), i \in {None, Some(TRUE)}}
SubmDocs == {[BaseDoc EXCEPT !.subm = s] : s \in Option(SeqsUpTo(SubmissionRows, MaxRows))}

Docs == HeadDocs \cup SchedDocs \cup FilesDocs \cup SubmDocs

(* ----------------------- lib.rs: parse_date ---------------------------- *)

\* The date grammar itself is not modelled: a text either denotes an instant
\* or is rejected.
parse_date(text) ==
    IF text.ok THEN Ok(text.at) ELSE Err("Could not match date")

(* -------------------- lib.rs: Querypath for Url ------------------------ *)

\* Characters of the addresses the portal writes into its links.  All of
\* them are characters a Url stores as they are, without percent-encoding;
\* "a" stands for any letter, digit, "." or "_".
PathChars == {"a", "/"}
QueryChars == {"a", "=", "?"}

Paths == SeqsUpTo(PathChars, MaxPath) \ {<<>>}
Queries == SeqsUpTo(QueryChars, MaxQuery)

\* an address: a relative path, and after a "?" the query string if it has
\* one
Addresses == Paths \cup {p \o <<"?">> \o q : p \in Paths, q \in Queries}

\* the Url of the portal, ILIAS_URL: path "/" and no query
BaseUrl == [path |-> <<"/">>, query |-> None]

RECURSIVE split(_, _)
\* str::split: the pieces between the occurrences of sep, in order; a text
\* without sep is one piece
split(text, sep) ==
    IF \A i \in 1..Len(text) : text[i] # sep THEN <<text>>
    ELSE LET i == CHOOSE k \in 1..Len(text) :
                    text[k] = sep /\ \A j \in 1..(k - 1) : text[j] # sep
         IN  <<SubSeq(text, 1, i - 1)>> \o split(SubSeq(text, i + 1, Len(text)), sep)

\* Url::set_path on an https Url: the path of such a Url always starts
\* with "/", which is put in front of a path that comes without it
set_path(self, path) ==
    [self EXCEPT !.path = IF path # <<>> /\ Head(path) = "/" THEN path ELSE <<"/">> \o path]

\* Url::set_query: None removes the query, Some("") leaves an empty one
set_query(self, query) == [self EXCEPT !.query = query]

\* the first piece is the path, the second (if there is one) the query; the
\* iterator is dropped with the pieces after the second
set_querypath(self, querypath) ==
    LET parts == split(querypath, "?") IN
    set_query(set_path(self, parts[1]),
              IF Len(parts) >= 2 THEN Some(parts[2]) ELSE None)

\* format!("{}?{}", path, query or "")
get_querypath(self) ==
    self.path \o <<"?">> \o (IF self.query = None THEN <<>> ELSE self.query[1])

(* -------------------- reference.rs: Reference<T> ----------------------- *)

Unavailable == [tag |-> "Unavailable", val |-> None]
Unresolved(q) == [tag |-> "Unresolved", val |-> Some(q)]
Resolved(t) == [tag |-> "Resolved", val |-> Some(t)]

\* mutant: the address is dropped
from_optional_querypath_dropping(querypath) == Unavailable

from_optional_querypath(querypath) ==
    IF querypath = None THEN Unavailable ELSE Unresolved(querypath[1])

try_get_resolved(self) ==
    IF self.tag = "Resolved" THEN Some(self.val[1]) ELSE None

(* -------------------- assignment.rs: Assignment::parse ----------------- *)

RECURSIVE find_row(_, _)
\* Iterator::find over the block's .form-group rows; the closure panics on
\* a row without a key element before it can look at the rows after it
find_row(rows, keys) ==
    IF rows = <<>> THEN Err("Did not find property")
    ELSE IF Head(rows).key = None THEN Panic("Property without key")
    ELSE IF Head(rows).key[1] \in keys THEN Ok(Head(rows))
    ELSE find_row(Tail(rows), keys)

get_value_element_for_keys(info_screen, keys) ==
    LET found == find_row(info_screen, keys) IN
    IF found.tag # "Ok" THEN found
    ELSE IF found.val.value = None THEN Err("Did not find value for property")
    ELSE Ok(found.val.value[1])

get_value_for_keys(info_screen, keys) ==
    get_value_element_for_keys(info_screen, keys)

\* the File of one attachment row; its name is the row's text, which the
\* model takes to be the row's position in the table
attachment_file(row, i) ==
    IF row.cols < 1 THEN Panic("Did not find filename")
    ELSE IF row.cols < 2 THEN Panic("Did not find download button")
    ELSE IF row.link = None THEN Panic("Did not find download link")
    ELSE IF row.link[1] = None THEN Panic("Did not find download href")
    ELSE Ok([name |-> i, description |-> "", download_querypath |-> Some(row.link[1][1]),
             date |-> None, id |-> None])

RECURSIVE attachment_files(_, _)
\* file_rows.map(..).collect(): rows in document order, the first panic ends it
attachment_files(rows, i) ==
    IF i > Len(rows) THEN Ok(<<>>)
    ELSE LET f == attachment_file(rows[i], i) IN
         IF f.tag # "Ok" THEN f
         ELSE LET rest == attachment_files(rows, i + 1) IN
              IF rest.tag # "Ok" THEN rest ELSE Ok(<<f.val>> \o rest.val)

instructions_of(instruction_info) ==
    IF instruction_info = None THEN None
    ELSE IF instruction_info[1] THEN Some("text") ELSE None

attachments_of(attachment_info) ==
    IF attachment_info = None THEN Ok(<<>>) ELSE attachment_files(attachment_info[1], 1)

\* mutant: a failed lookup of the link row is passed on, not dropped
submission_page_querypath_strict(submission_info) ==
    IF submission_info = None THEN Ok(None)
    ELSE LET e == get_value_element_for_keys(submission_info[1],
                                             {"Abgegebene Dateien", "Submitted Files"}) IN
         IF e.tag # "Ok" THEN e
         ELSE IF e.val = None THEN Ok(None)
         ELSE IF e.val[1] = None THEN Panic("Could not find href in link")
         ELSE Ok(Some(e.val[1][1]))

submission_page_querypath(submission_info) ==
    IF submission_info = None THEN Ok(None)
    ELSE LET e == get_value_element_for_keys(submission_info[1],
                                             {"Abgegebene Dateien", "Submitted Files"}) IN
         IF e.tag = "Panic" THEN e
         ELSE IF e.tag = "Err" THEN Ok(None)
         ELSE IF e.val = None THEN Ok(None)
         ELSE IF e.val[1] = None THEN Panic("Could not find href in link")
         ELSE Ok(Some(e.val[1][1]))

\* the date of one schedule row: lookup, then parse_date
schedule_date(schedule_info, keys) ==
    LET v == get_value_for_keys(schedule_info, keys) IN
    IF v.tag # "Ok" THEN v ELSE parse_date(v.val)

\* IliasElement::parse for Assignment; it never uses its transport argument
parse(d) ==
    IF ~d.hasName THEN Err("Did not find name")
    ELSE IF d.headerless THEN Panic("Could not find name of info screen")
    ELSE IF d.sched = None THEN Err("Did not find schedule")
    ELSE LET start == schedule_date(d.sched[1], {"Startzeit", "Start Time"})
             end == schedule_date(d.sched[1], {"Abgabetermin", "Edit Until"})
             attachments == attachments_of(d.files)
             querypath == submission_page_querypath(d.subm)
         IN  IF start.tag # "Ok" THEN start
             ELSE IF end.tag # "Ok" THEN end
             ELSE IF attachments.tag # "Ok" THEN attachments
             ELSE IF querypath.tag # "Ok" THEN querypath
             ELSE Ok([name |-> "assignment",
                      instructions |-> instructions_of(d.instr),
                      submission_start_date |-> start.val,
                      submission_end_date |-> end.val,
                      attachments |-> attachments.val,
                      submission |-> from_optional_querypath(querypath.val)])

(* ------------- the submissions page and the upload page --------------- *)

\* a <tr> of the submissions table: its number of child columns; whether the
\* first column holds a checkbox with a value attribute; the first column
\* from the third on whose text parse_date accepts (0: none); whether the
\* last column holds a link with an href
FileRows ==
    {[cols |-> c, checkbox |-> TRUE, dateAt |-> 0, link |-> TRUE] : c \in 0..1}
      \cup {[cols |-> c, checkbox |-> b, dateAt |-> 0, link |-> TRUE] :
               c \in 2..MaxCols, b \in BOOLEAN}
      \cup {[cols |-> c, checkbox |-> b, dateAt |-> c, link |-> TRUE] :
               c \in 3..MaxCols, b \in BOOLEAN}
      \cup {[cols |-> c, checkbox |-> b, dateAt |-> k, link |-> l] :
               c \in 4..MaxCols, k \in 3..(MaxCols - 1), b \in BOOLEAN, l \in BOOLEAN}

FullRow == [cols |-> 4, checkbox |-> TRUE, dateAt |-> 3, link |-> TRUE]
SeparatorRow == [cols |-> 1, checkbox |-> TRUE, dateAt |-> 0, link |-> TRUE]
ShortRow == [cols |-> 2, checkbox |-> TRUE, dateAt |-> 0, link |-> TRUE]

\* the submissions page: the table rows, the action of the first content form
\* (None: no form, Some(None): a form without action) and the data-action of
\* the upload button (likewise)
BasePage == [rows |-> <<>>, form |-> Some(Some(DeleteAddr)), button |-> Some(Some(UploadFormAddr))]

RowPages == {[BasePage EXCEPT !.rows = r] : r \in SeqsUpTo(FileRows, MaxRows)}
FormPages == {[BasePage EXCEPT !.form = f, !.button = b, !.rows = r] :
                 f \in LinkCells({DeleteAddr}), b \in LinkCells({UploadFormAddr}),
                 r \in {<<>>, <<FullRow>>}}
SubmissionPages == RowPages \cup FormPages

\* the upload page: the action of its first content form
UploadPages == [form : LinkCells({UploadAddr})]

\* the submissions pages the transport serves while one Assignment is in
\* use: pages that parse, and pages that do not
GoodPages == {[BasePage EXCEPT !.rows = <<SeparatorRow, FullRow>>]}
BadPages ==
    {[BasePage EXCEPT !.rows = <<ShortRow>>],
     [BasePage EXCEPT !.form = None],
     [BasePage EXCEPT !.form = Some(None)],
     [BasePage EXCEPT !.button = None],
     [BasePage EXCEPT !.button = Some(None)]}

\* what the transport does during one call: the outcome of the fetch of the
\* submissions page and of the fetch of the upload page (None: it fails, or
\* it is never asked for)
Transports ==
    {[first |-> None, second |-> None]}
      \cup {[first |-> Some(p), second |-> None] : p \in BadPages}
      \cup [first : {Some(p) : p \in GoodPages}, second : Option(UploadPages)]

(* ------------- assignment.rs: AssignmentSubmission --------------------- *)

\* one row that passed the filter; its id and name are the texts of the row,
\* which the model takes to be the row's position in the table
submitted_file(row, i) ==
    IF row.cols < 1 THEN Panic("Did not find first column in table")
    ELSE IF ~row.checkbox THEN Panic("Did not find checkbox")
    ELSE IF row.cols < 2 THEN Panic("Did not find second column")
    ELSE IF row.dateAt = 0 THEN Panic("Did not find date column")
    ELSE IF row.dateAt = row.cols THEN Panic("Did not find last column")
    ELSE IF ~row.link THEN Panic("Did not find download link")
    ELSE Ok([id |-> Some(i), name |-> i, description |-> "", date |-> Some(0),
             download_querypath |-> Some("dl.php?file")])

\* .filter(|&row| row.child_elements().count() > 1)
row_filter(row) == row.cols > 1

RECURSIVE uploaded_files(_, _)
uploaded_files(rows, i) ==
    IF i > Len(rows) THEN Ok(<<>>)
    ELSE IF ~row_filter(rows[i]) THEN uploaded_files(rows, i + 1)
    ELSE LET f == submitted_file(rows[i], i) IN
         IF f.tag # "Ok" THEN f
         ELSE LET rest == uploaded_files(rows, i + 1) IN
              IF rest.tag # "Ok" THEN rest ELSE Ok(<<f.val>> \o rest.val)

FetchEntry(by, querypath) == [by |-> by, querypath |-> querypath]

\* parse_submissions_page(submission_page, ilias_client); upload is what the
\* transport answers to the fetch of the upload page.  [res, fetches]
parse_submissions_page(submission_page, upload) ==
    LET files == uploaded_files(submission_page.rows, 1)
        fetched == <<FetchEntry("parse_submissions_page", submission_page.button[1][1])>>
    IN  IF files.tag # "Ok" THEN [res |-> files, fetches |-> <<>>]
        ELSE IF submission_page.form = None
             THEN [res |-> Err("Did not find deltion form"), fetches |-> <<>>]
        ELSE IF submission_page.form[1] = None
             THEN [res |-> Err("Did not find action attribute"), fetches |-> <<>>]
        ELSE IF submission_page.button = None
             THEN [res |-> Err("Did not find upload button"), fetches |-> <<>>]
        ELSE IF submission_page.button[1] = None
             THEN [res |-> Err("Did not find data-action on upload button"), fetches |-> <<>>]
        ELSE IF upload = None
             THEN [res |-> Err("transport"), fetches |-> fetched]
        ELSE IF upload[1].form = None
             THEN [res |-> Err("Did not find upload form"), fetches |-> fetched]
        ELSE IF upload[1].form[1] = None
             THEN [res |-> Err("Did not find action attribute"), fetches |-> fetched]
        ELSE [res |-> Ok([submissions |-> files.val,
                          delete_querypath |-> submission_page.form[1][1],
                          upload_querypath |-> upload[1].form[1][1]]),
              fetches |-> fetched]

(* -------------------- reference.rs: Reference::resolve ----------------- *)

\* mutant: a second call returns the cached value instead of failing
resolve_idempotent(self, t) ==
    IF self.tag = "Unavailable"
    THEN [self |-> self, ret |-> Err("Reference unavailable"), fetches |-> <<>>, parses |-> <<>>]
    ELSE IF self.tag = "Resolved"
    THEN [self |-> self, ret |-> Ok(self.val[1]), fetches |-> <<>>, parses |-> <<>>]
    ELSE LET fetched == <<FetchEntry("resolve", self.val[1])>> IN
         IF t.first = None
         THEN [self |-> self, ret |-> Err("Could not get querypath from element"),
               fetches |-> fetched, parses |-> <<>>]
         ELSE LET p == parse_submissions_page(t.first[1], t.second) IN
              [self |-> self, ret |-> p.res,
               fetches |-> fetched \o p.fetches, parses |-> <<p.res.tag>>]

\* resolve(&self, ilias_client).  T::parse is the parse of the referenced
\* type, which gets the transport too; for the submission reference it is
\* parse_submissions_page.  [self, ret, fetches, parses]
resolve(self, t) ==
    IF self.tag = "Unavailable"
    THEN [self |-> self, ret |-> Err("Reference unavailable"), fetches |-> <<>>, parses |-> <<>>]
    ELSE IF self.tag = "Resolved"
    THEN [self |-> self, ret |-> Err("Already resolved"), fetches |-> <<>>, parses |-> <<>>]
    ELSE LET fetched == <<FetchEntry("resolve", self.val[1])>> IN
         IF t.first = None
         THEN [self |-> self, ret |-> Err("Could not get querypath from element"),
               fetches |-> fetched, parses |-> <<>>]
         ELSE LET p == parse_submissions_page(t.first[1], t.second) IN
              [self |-> self, ret |-> p.res,
               fetches |-> fetched \o p.fetches, parses |-> <<p.res.tag>>]

(* -------------------- assignment.rs: Assignment ------------------------ *)

\* mutant: the parsed submission is returned but not stored
get_submission_forgetting(submission, t) ==
    IF submission.tag = "Unavailable"
    THEN [self |-> submission, ret |-> Ok(None), fetches |-> <<>>, parses |-> <<>>]
    ELSE IF submission.tag = "Resolved"
    THEN [self |-> submission, ret |-> Ok(Some(submission.val[1])),
          fetches |-> <<>>, parses |-> <<>>]
    ELSE LET fetched == <<FetchEntry("get_submission", submission.val[1])>> IN
         IF t.first = None
         THEN [self |-> submission, ret |-> Panic("Could not get submission page"),
               fetches |-> fetched, parses |-> <<>>]
         ELSE LET p == parse_submissions_page(t.first[1], t.second) IN
              IF p.res.tag = "Panic"
              THEN [self |-> submission, ret |-> p.res,
                    fetches |-> fetched \o p.fetches, parses |-> <<p.res.tag>>]
              ELSE IF p.res.tag = "Err"
              THEN [self |-> submission, ret |-> Panic("Could not parse submission page"),
                    fetches |-> fetched \o p.fetches, parses |-> <<p.res.tag>>]
              ELSE [self |-> submission,
                    ret |-> Ok(Some(p.res.val)),
                    fetches |-> fetched \o p.fetches, parses |-> <<p.res.tag>>]

\* get_submission(&mut self, ilias_client) -> Option<&AssignmentSubmission>
\* [self (the submission reference), ret, fetches, parses]
get_submission(submission, t) ==
    IF submission.tag = "Unavailable"
    THEN [self |-> submission, ret |-> Ok(None), fetches |-> <<>>, parses |-> <<>>]
    ELSE IF submission.tag = "Resolved"
    THEN [self |-> submission, ret |-> Ok(Some(submission.val[1])),
          fetches |-> <<>>, parses |-> <<>>]
    ELSE LET fetched == <<FetchEntry("get_submission", submission.val[1])>> IN
         IF t.first = None
         THEN [self |-> submission, ret |-> Panic("Could not get submission page"),
               fetches |-> fetched, parses |-> <<>>]
         ELSE LET p == parse_submissions_page(t.first[1], t.second) IN
              IF p.res.tag = "Panic"
              THEN [self |-> submission, ret |-> p.res,
                    fetches |-> fetched \o p.fetches, parses |-> <<p.res.tag>>]
              ELSE IF p.res.tag = "Err"
              THEN [self |-> submission, ret |-> Panic("Could not parse submission page"),
                    fetches |-> fetched \o p.fetches, parses |-> <<p.res.tag>>]
              ELSE [self |-> Resolved(p.res.val),
                    ret |-> Ok(try_get_resolved(Resolved(p.res.val))),
                    fetches |-> fetched \o p.fetches, parses |-> <<p.res.tag>>]

\* the two reads of Local::now() give n1 and then n2
is_active(self, n1, n2) ==
    self.submission_end_date >= n1 /\ self.submission_start_date <= n2

(* ------------- assignment.rs: delete_files / upload_files -------------- *)

\* what the caller may hand to delete_files: a submitted file (it has an id)
\* or a file without one, such as an attachment
DeletableFiles ==
    {[id |-> i, name |-> 1, description |-> "", date |-> None,
      download_querypath |-> Some("dl.php?file")] : i \in Option({1})}

\* NamedLocalFile, and whether the file at its path can be read
LocalFiles == [name : {"a.txt"}, path : {"/tmp/a.txt"}, readable : BOOLEAN]

FormPost(querypath, body) == [kind |-> "form", querypath |-> querypath, body |-> body]
MultipartPost(querypath, body) == [kind |-> "multipart", querypath |-> querypath, body |-> body]

\* a field name is a tuple: format!("deliver[{}]", index) is <<"deliver", index>>
FilePart(index, file) == [name |-> <<"deliver", index>>, filename |-> Some(file.name)]
TextPart(name) == [name |-> <<name>>, filename |-> None]

\* mutant: files without an id are skipped and the others are posted
delete_files_skipping(self, files, posted) ==
    LET with_id == SelectSeq(files, LAMBDA f : f.id # None)
        form_args == [i \in 1..Len(with_id) |-> <<"delivered[]", with_id[i].id[1]>>]
                       \o << <<"cmd[deleteDelivered]", "Loeschen">> >>
    IN  [self |-> self,
         ret |-> IF \E i \in 1..Len(files) : files[i].id = None
                 THEN Panic("Files to delete must have an id")
                 ELSE IF posted THEN Ok(None) ELSE Err("transport"),
         posts |-> <<FormPost(self.delete_querypath, form_args)>>]

\* delete_files(&self, ilias_client, files); posted: the transport accepts
\* the post.  [self, ret, posts]  (the command value is written in ASCII)
delete_files(self, files, posted) ==
    IF \E i \in 1..Len(files) : files[i].id = None
    THEN [self |-> self, ret |-> Panic("Files to delete must have an id"), posts |-> <<>>]
    ELSE LET form_args == [i \in 1..Len(files) |-> <<"delivered[]", files[i].id[1]>>]
                            \o << <<"cmd[deleteDelivered]", "Loeschen">> >>
         IN  [self |-> self,
              ret |-> IF posted THEN Ok(None) ELSE Err("transport"),
              posts |-> <<FormPost(self.delete_querypath, form_args)>>]

RECURSIVE upload_form(_, _)
\* the loop body of upload_files for the files from index i (0-based) on
upload_form(files, i) ==
    IF i >= Len(files) THEN <<>>
    ELSE <<FilePart(i, files[i + 1]), TextPart("cmd[uploadFile]"), TextPart("ilfilehash")>>
           \o upload_form(files, i + 1)

\* the uploaded files as entries of the submitted-files list
pushed(files) ==
    [i \in 1..Len(files) |->
       [id |-> None, name |-> 1, description |-> "", date |-> None,
        download_querypath |-> None]]

\* mutant: the uploaded files are pushed to the in-memory list
upload_files_pushing(self, files, posted) ==
    IF \E i \in 1..Len(files) : ~files[i].readable
    THEN [self |-> self, ret |-> Err("file_with_name"), posts |-> <<>>]
    ELSE [self |-> [self EXCEPT !.submissions = @ \o pushed(files)],
          ret |-> IF posted THEN Ok(None) ELSE Err("transport"),
          posts |-> <<MultipartPost(self.upload_querypath, upload_form(files, 0))>>]

\* upload_files(&self, ilias_client, files).  [self, ret, posts]
upload_files(self, files, posted) ==
    IF \E i \in 1..Len(files) : ~files[i].readable
    THEN [self |-> self, ret |-> Err("file_with_name"), posts |-> <<>>]
    ELSE [self |-> self,
          ret |-> IF posted THEN Ok(None) ELSE Err("transport"),
          posts |-> <<MultipartPost(self.upload_querypath, upload_form(files, 0))>>]

(* ------------------------------ actions -------------------------------- *)

Call(op, arg, res) == [op |-> op, arg |-> arg, res |-> res]

After(res) == IF res.tag = "Panic" THEN "panicked" ELSE pc

\* IliasElement::parse builds the Assignment from the page; the page is not
\* kept
Parse ==
    /\ pc = "new"
    /\ doc # None
    /\ LET r == parse(doc[1]) IN
         /\ ret' = Call("parse", doc, r)
         /\ pc' = IF r.tag = "Ok" THEN "live"
                  ELSE IF r.tag = "Err" THEN "failed" ELSE "panicked"
         /\ asg' = IF r.tag = "Ok" THEN Some(r.val) ELSE None
    /\ doc' = None
    /\ UNCHANGED <<page, now, fetchLog, parseLog, postLog, url>>

\* AssignmentSubmission::parse_submissions_page on a page of its own
ParsePage ==
    /\ pc = "new"
    /\ page # None
    /\ \E upload \in Option(UploadPages) :
         LET p == parse_submissions_page(page[1], upload) IN
           /\ ret' = Call("parse_submissions_page", <<page[1], upload>>, p.res)
           /\ fetchLog' = fetchLog \o p.fetches
           /\ parseLog' = Append(parseLog, p.res.tag)
           /\ pc' = IF p.res.tag = "Panic" THEN "panicked" ELSE "failed"
    /\ page' = None
    /\ UNCHANGED <<doc, asg, now, postLog, url>>

TryGetResolved ==
    /\ pc = "live"
    /\ ret' = Call("try_get_resolved", <<>>, Ok(try_get_resolved(asg[1].submission)))
    /\ UNCHANGED <<doc, page, pc, asg, now, fetchLog, parseLog, postLog, url>>

Resolve ==
    /\ pc = "live"
    /\ \E t \in Transports :
         LET e == resolve(asg[1].submission, t) IN
           /\ Len(fetchLog) + Len(e.fetches) <= MaxFetch
           /\ asg' = Some([asg[1] EXCEPT !.submission = e.self])
           /\ fetchLog' = fetchLog \o e.fetches
           /\ parseLog' = parseLog \o e.parses
           /\ ret' = Call("resolve", <<>>, e.ret)
           /\ pc' = After(e.ret)
    /\ UNCHANGED <<doc, page, now, postLog, url>>

GetSubmission ==
    /\ pc = "live"
    /\ \E t \in Transports :
         LET e == get_submission(asg[1].submission, t) IN
           /\ Len(fetchLog) + Len(e.fetches) <= MaxFetch
           /\ asg' = Some([asg[1] EXCEPT !.submission = e.self])
           /\ fetchLog' = fetchLog \o e.fetches
           /\ parseLog' = parseLog \o e.parses
           /\ ret' = Call("get_submission", <<>>, e.ret)
           /\ pc' = After(e.ret)
    /\ UNCHANGED <<doc, page, now, postLog, url>>

\* the caller holds the &AssignmentSubmission that get_submission returned
Delete ==
    /\ pc = "live"
    /\ asg[1].submission.tag = "Resolved"
    /\ \E files \in SeqsUpTo(DeletableFiles, MaxFiles), posted \in BOOLEAN :
         LET e == delete_files(asg[1].submission.val[1], files, posted) IN
           /\ Len(postLog) + Len(e.posts) <= MaxPosts
           /\ asg' = Some([asg[1] EXCEPT !.submission = Resolved(e.self)])
           /\ postLog' = postLog \o e.posts
           /\ ret' = Call("delete_files", files, e.ret)
           /\ pc' = After(e.ret)
    /\ UNCHANGED <<doc, page, now, fetchLog, parseLog, url>>

Upload ==
    /\ pc = "live"
    /\ asg[1].submission.tag = "Resolved"
    /\ \E files \in SeqsUpTo(LocalFiles, MaxFiles), posted \in BOOLEAN :
         LET e == upload_files(asg[1].submission.val[1], files, posted) IN
           /\ Len(postLog) + Len(e.posts) <= MaxPosts
           /\ asg' = Some([asg[1] EXCEPT !.submission = Resolved(e.self)])
           /\ postLog' = postLog \o e.posts
           /\ ret' = Call("upload_files", files, e.ret)
           /\ pc' = After(e.ret)
    /\ UNCHANGED <<doc, page, now, fetchLog, parseLog, url>>

\* the clock does not run backwards; the second read of Local::now() is made
\* only when the first comparison held
IsActive ==
    /\ pc = "live"
    /\ \E n1 \in now..MaxTime :
         \E n2 \in n1..MaxTime :
           /\ (asg[1].submission_end_date < n1) => n2 = n1
           /\ ret' = Call("is_active", <<n1, n2>>, Ok(is_active(asg[1], n1, n2)))
           /\ now' = n2
    /\ UNCHANGED <<doc, page, pc, asg, fetchLog, parseLog, postLog, url>>

\* an address is applied to the Url
SetQuerypath ==
    /\ \E querypath \in Addresses :
         /\ url' = set_querypath(url, querypath)
         /\ ret' = Call("set_querypath", querypath, Ok(None))
    /\ UNCHANGED <<doc, page, pc, asg, now, fetchLog, parseLog, postLog>>

\* the address of the Url is read back
GetQuerypath ==
    /\ ret' = Call("get_querypath", <<>>, Ok(get_querypath(url)))
    /\ UNCHANGED <<doc, page, pc, asg, now, fetchLog, parseLog, postLog, url>>

(* --------------------------- specifications ---------------------------- *)

Fresh ==
    /\ pc = "new"
    /\ asg = None
    /\ now = 0
    /\ fetchLog = <<>>
    /\ parseLog = <<>>
    /\ postLog = <<>>
    /\ ret = Call("new", <<>>, Ok(None))
    /\ url = BaseUrl

\* one Assignment and its submission reference, from the page on
Init ==
    /\ doc \in {Some(d) : d \in SubmDocs}
    /\ page = None
    /\ Fresh

Next ==
    \/ Parse
    \/ TryGetResolved
    \/ Resolve
    \/ GetSubmission
    \/ Delete
    \/ Upload

Spec == Init /\ [][Next]_vars

\* the two parse functions on every page of the bounded sets
InitParse ==
    /\ \/ doc \in {Some(d) : d \in Docs} /\ page = None
       \/ doc = None /\ page \in {Some(p) : p \in SubmissionPages}
    /\ Fresh

NextParse ==
    \/ Parse
    \/ ParsePage

SpecParse == InitParse /\ [][NextParse]_vars

\* an Assignment with any submission window, and the clock
InitActive ==
    /\ doc \in {Some(d) : d \in SchedDocs}
    /\ page = None
    /\ Fresh

NextActive ==
    \/ Parse
    \/ IsActive

SpecActive == InitActive /\ [][NextActive]_vars

\* the portal's Url, with addresses applied to it and read back
InitUrl ==
    /\ doc = None
    /\ page = None
    /\ Fresh

NextUrl ==
    \/ SetQuerypath
    \/ GetQuerypath

SpecUrl == InitUrl /\ [][NextUrl]_vars

(* ------------------------------- claims -------------------------------- *)

\* the submission reference of the Assignment, before and after a step
Ref == asg[1].submission
RefNext == asg'[1].submission

\* a step of get_submission / resolve that starts from Unresolved and succeeds
Resolving(op) ==
    /\ pc = "live"
    /\ Ref.tag = "Unresolved"
    /\ ret'.op = op
    /\ ret'.res.tag = "Ok"

\* the fetches a step adds to the log
NewFetches == SubSeq(fetchLog', Len(fetchLog) + 1, Len(fetchLog'))

\* a read of the cell made while it is Resolved returns the cached value and
\* fetches nothing
PeekReturnsCached ==
    (pc = "live" /\ Ref.tag = "Resolved" /\ ret'.op \in {"try_get_resolved", "get_submission"})
      => /\ ret'.res = Ok(Some(Ref.val[1]))
         /\ fetchLog' = fetchLog
         /\ parseLog' = parseLog
         /\ RefNext = Ref

C2_AtMostOnce ==
    [][/\ pc = "live" => (RefNext = Ref \/ (Ref.tag = "Unresolved" /\ RefNext.tag = "Resolved"))
       /\ Len(SelectSeq(parseLog', LAMBDA p : p = "Ok")) <= 1]_vars

\* C3: resolve on a cell that is Unavailable or Resolved returns an error
\* value, makes no transport call and leaves the cell as it is.
C3_ResolveRefuses ==
    [][(pc = "live" /\ Ref.tag # "Unresolved" /\ ret'.op = "resolve")
         => /\ ret'.res = Err(IF Ref.tag = "Resolved" THEN "Already resolved"
                              ELSE "Reference unavailable")
            /\ fetchLog' = fetchLog
            /\ postLog' = postLog
            /\ parseLog' = parseLog
            /\ RefNext = Ref
            /\ pc' = "live"]_vars

C3_Witness ==
    /\ pc = "live"
    /\ Ref.tag = "Resolved"
    /\ ret.op = "resolve"
    /\ ret.res.tag = "Err"

\* the first row of the block whose label is accepted for the submission link
LinkRow(rows) ==
    LET hits == {i \in 1..Len(rows) :
                   rows[i].key \in {Some("Abgegebene Dateien"), Some("Submitted Files")}}
    IN  IF hits = {} THEN None
        ELSE Some(rows[CHOOSE i \in hits : \A j \in hits : i <= j])

\* the address of the submission link the page carries, if it carries one
ExtractedLink(d) ==
    IF d.subm = None \/ LinkRow(d.subm[1]) = None THEN None
    ELSE LET v == LinkRow(d.subm[1])[1].value IN
         IF v = None \/ v[1] = None \/ v[1][1] = None THEN None ELSE v[1][1]

\* C4: Assignment::parse makes no transport call; the reference it builds is
\* Unresolved(a) exactly when the page carries a submission link with address
\* a and Unavailable exactly when it carries none, never Resolved; and the
\* reference changes only in a call of get_submission or resolve.
C4_ParseIsLazy ==
    [][/\ ret'.op = "parse"
          => /\ fetchLog' = fetchLog
             /\ postLog' = postLog
             /\ parseLog' = parseLog
             /\ ret'.res.tag = "Ok"
                   => /\ RefNext.tag \in {"Unresolved", "Unavailable"}
                      /\ \A a \in SubmissionAddrs :
                            RefNext = Unresolved(a) <=> ExtractedLink(doc[1]) = Some(a)
                      /\ RefNext = Unavailable <=> ExtractedLink(doc[1]) = None
       /\ (pc = "live" /\ RefNext # Ref) => ret'.op \in {"get_submission", "resolve"}]_vars

\* parsed with a link, read once, and still Unresolved with nothing fetched
C4_Witness ==
    /\ pc = "live"
    /\ ret.op = "try_get_resolved"
    /\ Ref.tag = "Unresolved"
    /\ fetchLog = <<>>

\* a step of delete_files / upload_files
Mutating(op) == pc = "live" /\ ret'.op = op

NoId(files) == \E i \in 1..Len(files) : files[i].id = None

\* C5 as stated: delete_files on a list holding a file without id, at any
\* position, fails with an error value and posts nothing.
C5_AsStated ==
    [][(Mutating("delete_files") /\ NoId(ret'.arg))
         => /\ ret'.res.tag = "Err"
            /\ postLog' = postLog
            /\ fetchLog' = fetchLog]_vars

\* C5 amended: delete_files on a list holding a file without id, at any
\* position, fails by panicking ("Files to delete must have an id") rather
\* than by returning an error value, and makes no network call: nothing is
\* posted for any of the files, those with an id included.
C5_DeletePanics ==
    [][(Mutating("delete_files") /\ NoId(ret'.arg))
         => /\ ret'.res = Panic("Files to delete must have an id")
            /\ pc' = "panicked"
            /\ postLog' = postLog
            /\ fetchLog' = fetchLog]_vars

\* a file with an id first, the file without one after it
C5_Witness ==
    /\ ret.op = "delete_files"
    /\ Len(ret.arg) >= 2
    /\ ret.arg[1].id # None
    /\ ret.arg[Len(ret.arg)].id = None
    /\ pc = "panicked"
    /\ postLog = <<>>

\* the parts of a multipart body with the given field name
PartsNamed(body, name) == SelectSeq(body, LAMBDA part : part.name = name)

\* C6: upload_files of n files that can be read posts exactly one multipart
\* request, to the stored upload address, holding n file parts named
\* deliver[0] .. deliver[n-1] in input order and the two text fields
\* cmd[uploadFile] and ilfilehash once each.  (Stated for n >= 1; for n = 0
\* the code sends neither text field.)
C6_OneOfEach ==
    [][(Mutating("upload_files") /\ Len(ret'.arg) >= 1
          /\ \A i \in 1..Len(ret'.arg) : ret'.arg[i].readable)
         => /\ Len(postLog') = Len(postLog) + 1
            /\ LET post == postLog'[Len(postLog')]
                   n == Len(ret'.arg)
                   files == SelectSeq(post.body, LAMBDA part : part.filename # None)
               IN  /\ post.kind = "multipart"
                   /\ post.querypath = Ref.val[1].upload_querypath
                   /\ Len(files) = n
                   /\ \A i \in 1..n : files[i].name = <<"deliver", i - 1>>
                   /\ Len(PartsNamed(post.body, <<"cmd[uploadFile]">>)) = 1
                   /\ Len(PartsNamed(post.body, <<"ilfilehash">>)) = 1
                   /\ Len(post.body) = n + 2]_vars

\* C7: delete_files and upload_files, whatever their outcome, leave the
\* AssignmentSubmission (file list, delete address, upload address) and the
\* Resolved reference holding it as they were and fetch nothing; the next
\* get_submission returns that same value without a fetch.
C7_MutationsKeepState ==
    [][/\ (Mutating("delete_files") \/ Mutating("upload_files"))
          => /\ asg' = asg
             /\ RefNext.tag = "Resolved"
             /\ fetchLog' = fetchLog
             /\ parseLog' = parseLog
       /\ (pc = "live" /\ ret.op \in {"delete_files", "upload_files"}
              /\ ret'.op = "get_submission")
          => /\ ret'.res = Ok(Some(Ref.val[1]))
             /\ asg' = asg
             /\ fetchLog' = fetchLog]_vars

\* a get_submission after a post went out, with a non-empty file list
C7_Witness ==
    /\ pc = "live"
    /\ ret.op = "get_submission"
    /\ postLog # <<>>
    /\ postLog[1].kind = "multipart"
    /\ Len(postLog[1].body) > 0
    /\ Ref.tag = "Resolved"
    /\ Ref.val[1].submissions # <<>>

\* C8: is_active is true iff start <= now <= end, both boundaries included,
\* for start and end in either order and with the clock advancing during
\* the call: now is some instant between the first and the last clock read.
C8_ActiveIffInWindow ==
    (pc = "live" /\ ret.op = "is_active")
      => (ret.res.val <=>
            \E t \in ret.arg[1]..ret.arg[2] :
               asg[1].submission_start_date <= t /\ t <= asg[1].submission_end_date)

StartLabels == {"Startzeit", "Start Time"}
EndLabels == {"Abgabetermin", "Edit Until"}
LinkLabels == {"Abgegebene Dateien", "Submitted Files"}

\* every row of the block has a label cell
AllKeyed(block) == \A i \in 1..Len(block[1]) : block[1][i].key # None

\* the block is there, but none of its rows carries an accepted label
NoRow(block, labels) ==
    /\ block # None
    /\ AllKeyed(block)
    /\ \A i \in 1..Len(block[1]) : block[1][i].key[1] \notin labels

\* the page parse was called on has a name and only headed info screens
ParsedPage == ret.op = "parse" /\ ret.arg[1].hasName /\ ~ret.arg[1].headerless

\* C9 as stated: a field whose block is absent is None when optional and an
\* error when mandatory; a field whose block is present without a row of an
\* accepted label is an error, optional or not.
C9_AsStated ==
    ParsedPage =>
      LET d == ret.arg[1]
          r == ret.res
      IN  /\ d.sched = None => r.tag = "Err"
          /\ (r.tag = "Ok" /\ d.instr = None) => r.val.instructions = None
          /\ (r.tag = "Ok" /\ d.subm = None) => r.val.submission = Unavailable
          /\ NoRow(d.sched, StartLabels) => r.tag = "Err"
          /\ NoRow(d.sched, EndLabels) => r.tag = "Err"
          /\ NoRow(d.subm, LinkLabels) => r.tag = "Err"

\* C9 amended: a field whose block is absent is None when optional
\* (instructions, submission link) and an error when mandatory (schedule).
\* When the block is present, every row with a label cell, and no row has an
\* accepted label, a mandatory field (start time, end time) is an error, but
\* an optional one is not: the submission link counts as absent (the
\* reference is Unavailable) and the parse goes on as without the block; the
\* instructions, read without labels, are None when their block has no value.
C9_TwoTiers ==
    ParsedPage =>
      LET d == ret.arg[1]
          r == ret.res
          without == parse([d EXCEPT !.subm = None])
      IN  /\ d.sched = None => r = Err("Did not find schedule")
          /\ r.tag = "Ok" => (r.val.instructions = None <=> d.instr \in {None, Some(FALSE)})
          /\ (r.tag = "Ok" /\ d.subm = None) => r.val.submission = Unavailable
          /\ NoRow(d.sched, StartLabels) => r.tag = "Err"
          /\ NoRow(d.sched, EndLabels) => r.tag = "Err"
          /\ NoRow(d.subm, LinkLabels)
                => /\ r.tag = without.tag
                   /\ r.val = without.val
                   /\ r.tag = "Ok" => r.val.submission = Unavailable

\* a "Your Submission" block with rows, none of them the link row: parsed
C9_Witness ==
    /\ ParsedPage
    /\ NoRow(ret.arg[1].subm, LinkLabels)
    /\ Len(ret.arg[1].subm[1]) >= 1
    /\ ret.res.tag = "Ok"
    /\ pc = "live"

\* files holds one file per row of the set kept, in document order
InDocumentOrder(files, kept) ==
    /\ Len(files) = Cardinality(kept)
    /\ \A i \in 1..Len(files) : files[i].name \in kept
    /\ \A i \in 1..Len(files) : \A j \in 1..Len(files) : i < j => files[i].name < files[j].name

\* an attachment row needs two columns: the name and the download button
ShortAttachment(row) == row.cols < 2
FullAttachment(row) == row.cols >= 2 /\ row.link # None /\ row.link[1] # None

\* a submitted-file row needs four: checkbox, name, date and download link
ShortFileRow(row) == row.cols < 4
FullFileRow(row) ==
    row.cols >= 4 /\ row.checkbox /\ row.dateAt >= 3 /\ row.dateAt < row.cols /\ row.link

\* C10: in the attachment table and in the submitted-files table a row with
\* fewer columns than the positional read needs is skipped without a File,
\* an error or a panic, and the other rows come out in document order.
C10_ShortRowsSkipped ==
    /\ (ParsedPage /\ ret.arg[1].sched = BaseDoc.sched /\ ret.arg[1].subm = None
          /\ ret.arg[1].files # None
          /\ \A i \in 1..Len(ret.arg[1].files[1]) :
                ShortAttachment(ret.arg[1].files[1][i]) \/ FullAttachment(ret.arg[1].files[1][i]))
         => /\ ret.res.tag = "Ok"
            /\ InDocumentOrder(ret.res.val.attachments,
                               {i \in 1..Len(ret.arg[1].files[1]) :
                                  FullAttachment(ret.arg[1].files[1][i])})
    /\ (ret.op = "parse_submissions_page"
          /\ ret.arg[1].form = BasePage.form /\ ret.arg[1].button = BasePage.button
          /\ ret.arg[2] = Some([form |-> Some(Some(UploadAddr))])
          /\ \A i \in 1..Len(ret.arg[1].rows) :
                ShortFileRow(ret.arg[1].rows[i]) \/ FullFileRow(ret.arg[1].rows[i]))
         => /\ ret.res.tag = "Ok"
            /\ InDocumentOrder(ret.res.val.submissions,
                               {i \in 1..Len(ret.arg[1].rows) : FullFileRow(ret.arg[1].rows[i])})

\* C11: an address applied to a Url with set_querypath and read back with
\* get_querypath comes back as the same text, character for character,
\* whether it has a query string or not and however many "?" it holds.
C11_RoundTrip ==
    [][(ret.op = "set_querypath" /\ ret'.op = "get_querypath")
         => ret'.res.val = ret.arg]_vars

====
